---- MODULE Spec2Model ----
(***************************************************************************)
(* Model of gamelibs/src/math.rs of beans_quest: the second-order dynamics *)
(* tracker (CurveType::from_style, calc_weighted_next), the numeric        *)
(* derivative and the fast inverse square root q_rsqrt.                    *)
(*                                                                         *)
(* f64 values.  A value is NaN, +Inf, -Inf or a finite number              *)
(* (n/d) * DELTA^e with DELTA = f64::MIN_POSITIVE = 2^-1022 and e the      *)
(* "level": e = 0 is the ordinary range, e = 1 the range of multiples of   *)
(* DELTA, e = -1 the range of multiples of 2^1022.  Inside one level the   *)
(* arithmetic is exact rational arithmetic (the 2^-53 relative rounding    *)
(* error of f64 is left out); across levels it is what f64 does: a sum     *)
(* keeps the operand of larger magnitude unchanged (the other is below     *)
(* half an ulp), DELTA^2 underflows to 0 and 2^2044 overflows to Inf.      *)
(* Division by zero yields Inf or NaN as in IEEE-754, it never traps.      *)
(* Zero carries no sign.                                                   *)
(***************************************************************************)
EXTENDS Integers, Sequences, FiniteSets, TLC

\* ------------------------------------------------------------------ f64

Abs(i) == IF i < 0 THEN -i ELSE i

Sgn(i) == IF i < 0 THEN -1 ELSE IF i > 0 THEN 1 ELSE 0

RECURSIVE GCD(_, _)
GCD(a, b) == IF b = 0 THEN a ELSE GCD(b, a % b)

NaN == [c |-> "NaN", n |-> 0, d |-> 1, e |-> 0]

Inf(s) == [c |-> "Inf", n |-> s, d |-> 1, e |-> 0]

Zero == [c |-> "Fin", n |-> 0, d |-> 1, e |-> 0]

\* (n/d) * DELTA^e brought to lowest terms, with f64's underflow and overflow.
Fin(n, d, e) ==
    IF n = 0 \/ e >= 2 THEN Zero
    ELSE IF e <= -2 \/ (e = -1 /\ Abs(n) >= 4 * d) THEN Inf(Sgn(n))
    ELSE LET g == GCD(Abs(n), d)
         IN  [c |-> "Fin", n |-> n \div g, d |-> d \div g, e |-> e]

Rat(n, d) == Fin(n, d, 0)

IsNaN(a) == a.c = "NaN"

IsInf(a) == a.c = "Inf"

IsFin(a) == a.c = "Fin"

IsZero(a) == a.c = "Fin" /\ a.n = 0

FSign(a) == Sgn(a.n)

FNeg(a) == [a EXCEPT !.n = -a.n]

FAbs(a) == [a EXCEPT !.n = Abs(a.n)]

FMul(a, b) ==
    IF IsNaN(a) \/ IsNaN(b) THEN NaN
    ELSE IF IsInf(a) \/ IsInf(b)
         THEN IF IsZero(a) \/ IsZero(b) THEN NaN ELSE Inf(FSign(a) * FSign(b))
    ELSE LET g1 == GCD(Abs(a.n), b.d)
             g2 == GCD(Abs(b.n), a.d)
         IN  IF a.n = 0 \/ b.n = 0 THEN Zero
             ELSE Fin((a.n \div g1) * (b.n \div g2),
                      (a.d \div g2) * (b.d \div g1), a.e + b.e)

FDiv(a, b) ==
    IF IsNaN(a) \/ IsNaN(b) THEN NaN
    ELSE IF IsInf(a)
         THEN IF IsInf(b) THEN NaN
              ELSE Inf(FSign(a) * (IF FSign(b) < 0 THEN -1 ELSE 1))
    ELSE IF IsInf(b) THEN Zero
    ELSE IF IsZero(b) THEN (IF IsZero(a) THEN NaN ELSE Inf(FSign(a)))
    ELSE FMul(a, [c |-> "Fin", n |-> Sgn(b.n) * b.d, d |-> Abs(b.n), e |-> -b.e])

FAdd(a, b) ==
    IF IsNaN(a) \/ IsNaN(b) THEN NaN
    ELSE IF IsInf(a)
         THEN IF IsInf(b) /\ FSign(a) # FSign(b) THEN NaN ELSE a
    ELSE IF IsInf(b) THEN b
    ELSE IF IsZero(a) THEN b
    ELSE IF IsZero(b) THEN a
    ELSE IF a.e < b.e THEN a
    ELSE IF b.e < a.e THEN b
    ELSE LET g == GCD(a.d, b.d)
         IN  Fin(a.n * (b.d \div g) + b.n * (a.d \div g), (a.d \div g) * b.d, a.e)

FSub(a, b) == FAdd(a, FNeg(b))

\* The comparisons of f64: every comparison with NaN is false.
FLt(a, b) ==
    /\ ~IsNaN(a)
    /\ ~IsNaN(b)
    /\ a # b
    /\ FSign(FSub(a, b)) < 0

FLe(a, b) == ~IsNaN(a) /\ ~IsNaN(b) /\ (a = b \/ FLt(a, b))

\* f64::max: the other operand when one is NaN.
FMax(a, b) ==
    IF IsNaN(a) THEN b
    ELSE IF IsNaN(b) THEN a
    ELSE IF FLt(a, b) THEN b ELSE a

\* The exact root of a perfect square; the styles of the model are drawn so that
\* z*z - 1 is the square of a rational.
ISqrt(i) == CHOOSE k \in 0..i : k * k = i

FSqrt(a) ==
    IF IsNaN(a) THEN NaN
    ELSE IF IsInf(a) THEN (IF FSign(a) > 0 THEN a ELSE NaN)
    ELSE IF IsZero(a) THEN Zero
    ELSE IF FSign(a) < 0 THEN NaN
    ELSE Fin(ISqrt(a.n), ISqrt(a.d), (CHOOSE h \in {0} : h + h = a.e))

One == Rat(1, 1)

Two == Rat(2, 1)

Half == Rat(1, 2)

OneAndHalf == Rat(3, 2)

\* std::f64::consts::PI is itself a rational (884279719003555 / 2^48); the model
\* takes the rational 22/7 for it, which keeps the numerators inside TLC's integers.
PI == Rat(22, 7)

\* f64::MIN_POSITIVE = 2^-1022, the unit of level 1.
MIN_POSITIVE == Fin(1, 1, 1)

\* f64::exp where it is exact: exp(0) = 1, and exp(x) rounds to 1.0 for |x| of
\* the order of DELTA.  calc_weighted_next calls it with -_z * _w * t, which is
\* 0 (or NaN) since from_style sets _z = 0.0.
FExp(a) ==
    IF IsNaN(a) THEN NaN
    ELSE IF IsInf(a) THEN (IF FSign(a) > 0 THEN a ELSE Zero)
    ELSE IF IsZero(a) \/ a.e = 1 THEN One
    ELSE CHOOSE v \in {} : TRUE

\* a / PI as twelfths: the cosine is rational exactly at the multiples of PI/3
\* and of PI/2.
Twelfths(a) == FMul(FDiv(a, PI), Rat(12, 1))

CosExact(a) ==
    \/ ~IsFin(a)
    \/ IsZero(a)
    \/ a.e = 1
    \/ a.e = 0 /\ Twelfths(a).d = 1 /\ (Twelfths(a).n % 4 = 0 \/ Twelfths(a).n % 6 = 0)

\* f64::cos: NaN for NaN and for the infinities, 1.0 for |x| of the order of DELTA.
FCos(a) ==
    IF ~IsFin(a) THEN NaN
    ELSE IF IsZero(a) \/ a.e = 1 THEN One
    ELSE LET k == Twelfths(a).n % 24
         IN  CASE k = 0 -> One
               [] k \in {4, 20} -> Half
               [] k \in {6, 18} -> Zero
               [] k \in {8, 16} -> FNeg(Half)
               [] k = 12 -> FNeg(One)

\* f64::cosh where it is exact; reached only with _z > 1.0.
FCosh(a) ==
    IF IsNaN(a) THEN NaN
    ELSE IF IsInf(a) THEN Inf(1)
    ELSE IF IsZero(a) \/ a.e = 1 THEN One
    ELSE CHOOSE v \in {} : TRUE

\* ------------------------------------------------- CurveStyle, CurveType

Linear == [tag |-> "Linear", f |-> Zero, z |-> Zero, r |-> Zero]

Bezier == [tag |-> "Bezier", f |-> Zero, z |-> Zero, r |-> Zero]

SmoothDamped == [tag |-> "SmoothDamped", f |-> Zero, z |-> Zero, r |-> Zero]

Mechanical(f, z) == [tag |-> "Mechanical", f |-> f, z |-> z, r |-> Zero]

Custom(f, z, r) == [tag |-> "Custom", f |-> f, z |-> z, r |-> r]

\* get_fzr with Mechanical's r taken for 1.0 instead of 2.0.
get_fzr_unit_r(c) ==
    CASE c.tag = "Linear" ->
           [f |-> Rat(10, 1), z |-> Zero, r |-> One, _w |-> Zero, _z |-> Zero, _d |-> Zero]
      [] c.tag = "Bezier" ->
           [f |-> Zero, z |-> Zero, r |-> Zero, _w |-> Zero, _z |-> Zero, _d |-> Zero]
      [] c.tag = "SmoothDamped" ->
           [f |-> One, z |-> One, r |-> Zero, _w |-> Zero, _z |-> Zero, _d |-> Zero]
      [] c.tag = "Mechanical" ->
           [f |-> c.f, z |-> c.z, r |-> One, _w |-> Zero, _z |-> Zero, _d |-> Zero]
      [] c.tag = "Custom" ->
           [f |-> c.f, z |-> c.z, r |-> c.r, _w |-> Zero, _z |-> Zero, _d |-> Zero]

\* The match of from_style: the CurveType holding the raw f, z, r of the style.
get_fzr(c) ==
    CASE c.tag = "Linear" ->
           [f |-> Rat(10, 1), z |-> Zero, r |-> One, _w |-> Zero, _z |-> Zero, _d |-> Zero]
      [] c.tag = "Bezier" ->
           [f |-> Zero, z |-> Zero, r |-> Zero, _w |-> Zero, _z |-> Zero, _d |-> Zero]
      [] c.tag = "SmoothDamped" ->
           [f |-> One, z |-> One, r |-> Zero, _w |-> Zero, _z |-> Zero, _d |-> Zero]
      [] c.tag = "Mechanical" ->
           [f |-> c.f, z |-> c.z, r |-> Two, _w |-> Zero, _z |-> Zero, _d |-> Zero]
      [] c.tag = "Custom" ->
           [f |-> c.f, z |-> c.z, r |-> c.r, _w |-> Zero, _z |-> Zero, _d |-> Zero]

\* CurveType::from_style.  It has no failing path: every style yields a CurveType.
from_style(c) ==
    LET f == get_fzr(c).f
        z == get_fzr(c).z
        r == get_fzr(c).r
        _w == FMul(FMul(Two, PI), f)
        _z == Zero
        _d == FMul(_w, FSqrt(FAbs(FSub(FMul(z, z), One))))
    IN  [f |-> FDiv(z, FMul(PI, f)),
         r |-> FDiv(One, FMul(_w, _w)),
         z |-> FDiv(FMul(r, z), _w),
         _w |-> _w, _z |-> _z, _d |-> _d]

\* ------------------------------------------------------------ derivative

\* The target functions handed to derivative and to calc_weighted_next.
Apply(fn, a) ==
    CASE fn = "const1" -> One
      [] fn = "identity" -> a
      [] fn = "square" -> FMul(a, a)
      [] fn = "step" -> IF FLt(Zero, a) THEN One ELSE Zero

derivative(fn, a) ==
    LET DELTA == MIN_POSITIVE
        x1 == FSub(a, DELTA)
        x2 == FAdd(a, DELTA)
        y1 == Apply(fn, x1)
        y2 == Apply(fn, x2)
    IN  FDiv(FSub(y2, y1), FSub(x2, x1))

\* The two sample points and the divisor of derivative, for the claims about them.
derivative_x1(a) == FSub(a, MIN_POSITIVE)

derivative_x2(a) == FAdd(a, MIN_POSITIVE)

\* ---------------------------------------------------- calc_weighted_next

Vec3(a, b, c) == [x |-> a, y |-> b, z |-> c]

\* A local that the branch taken does not define.
Unset == [c |-> "Unset", n |-> 0, d |-> 1, e |-> 0]

k1_of(w) == w.curve.f

k2_of(w) == w.curve.z

k3_of(w) == w.curve.r

\* The condition with <= for <.
clamp_cond_le(w) == FLe(FMul(w.curve._w, w.time), w.curve._z)

\* The condition of the if: _w * t < _z.
clamp_cond(w) == FLt(FMul(w.curve._w, w.time), w.curve._z)

\* beta doubled instead of squared.
beta_of_double(t1) == FAdd(t1, t1)

beta_of(t1) == FMul(t1, t1)

\* k1_stable and k2_stable with the locals of the branch that computes them.
stabilize(w) ==
    LET k1 == k1_of(w)
        k2 == k2_of(w)
        _w == w.curve._w
        _z == w.curve._z
        _d == w.curve._d
        t == w.time
    IN  IF clamp_cond(w)
        THEN [branch |-> "clamp",
              k1_stable |-> k1,
              k2_stable |-> FMax(k2, FMax(FAdd(FMul(FMul(t, t), Half),
                                               FMul(FMul(t, k1), Half)),
                                          FMul(t, k1))),
              t1 |-> Unset, temp |-> Unset, alpha |-> Unset, beta |-> Unset,
              den |-> Unset, t2 |-> Unset]
        ELSE LET t1 == FExp(FMul(FMul(FNeg(_z), _w), t))
                 temp == IF FLe(_z, One) THEN FCos(FMul(t, _d)) ELSE FCosh(FMul(t, _d))
                 alpha == FMul(FMul(Two, t1), temp)
                 beta == beta_of(t1)
                 den == FSub(FAdd(One, beta), alpha)
                 t2 == FDiv(t, den)
             IN  [branch |-> "pole",
                  k1_stable |-> FMul(FSub(One, beta), t2),
                  k2_stable |-> FMul(t, t2),
                  t1 |-> t1, temp |-> temp, alpha |-> alpha, beta |-> beta,
                  den |-> den, t2 |-> t2]

\* The position line of one component: y.c = y.c + t * yd.c.
next_pos(t, y, yd) == FAdd(y, FMul(t, yd))

\* The velocity line of one component, y being the component already updated:
\* yd.c = yd.c + t * (x + k3 * xd - y.c - k1_stable * yd.c) / k2_stable.
next_vel(t, x, xd, k3, k1_stable, k2_stable, y, yd) ==
    FAdd(yd, FDiv(FMul(t, FSub(FSub(FAdd(x, FMul(k3, xd)), y), FMul(k1_stable, yd))),
                  k2_stable))

\* The velocity lines reading the position from before the position lines.
update_position_stale(t, x, xd, k3, k1_stable, k2_stable, y0, yd0) ==
    [y |-> Vec3(next_pos(t, y0.x, yd0.x), next_pos(t, y0.y, yd0.y),
                next_pos(t, y0.z, yd0.z)),
     yd |-> Vec3(next_vel(t, x, xd, k3, k1_stable, k2_stable, y0.x, yd0.x),
                 next_vel(t, x, xd, k3, k1_stable, k2_stable, y0.y, yd0.y),
                 next_vel(t, x, xd, k3, k1_stable, k2_stable, y0.z, yd0.z))]

\* The six assignments that end calc_weighted_next, from the locals computed
\* before them: the three position lines, then the three velocity lines.
update_position(t, x, xd, k3, k1_stable, k2_stable, y0, yd0) ==
    LET yx == next_pos(t, y0.x, yd0.x)
        yy == next_pos(t, y0.y, yd0.y)
        yz == next_pos(t, y0.z, yd0.z)
    IN  [y |-> Vec3(yx, yy, yz),
         yd |-> Vec3(next_vel(t, x, xd, k3, k1_stable, k2_stable, yx, yd0.x),
                     next_vel(t, x, xd, k3, k1_stable, k2_stable, yy, yd0.y),
                     next_vel(t, x, xd, k3, k1_stable, k2_stable, yz, yd0.z))]

\* The locals of calc_weighted_next before the update.
locals_of(w) ==
    [k1 |-> k1_of(w), k2 |-> k2_of(w), k3 |-> k3_of(w),
     x |-> Apply(w.base_func, w.time),
     xd |-> derivative(w.base_func, w.time),
     s |-> stabilize(w)]

returned(w, l) ==
    [ret |-> update_position(w.time, l.x, l.xd, l.k3, l.s.k1_stable, l.s.k2_stable,
                             w.last_pos, w.last_vel),
     locals |-> l]

\* calc_weighted_next: the pair (y, yd) it returns, with its locals.
calc_weighted_next(w) == returned(w, locals_of(w))

\* --------------------------------------------------------------- q_rsqrt

\* A u64 is its four 16-bit limbs, most significant first.
Limb == 65536

\* bits >> 1
shr1(b) ==
    << b[1] \div 2,
       (b[2] \div 2) + (b[1] % 2) * (Limb \div 2),
       (b[3] \div 2) + (b[2] % 2) * (Limb \div 2),
       (b[4] \div 2) + (b[3] % 2) * (Limb \div 2) >>

\* a - b on u64: the difference modulo 2^64 and whether it borrowed out of bit 63.
sub_u64(a, b) ==
    LET d4 == a[4] - b[4]
        c4 == IF d4 < 0 THEN 1 ELSE 0
        d3 == a[3] - b[3] - c4
        c3 == IF d3 < 0 THEN 1 ELSE 0
        d2 == a[2] - b[2] - c3
        c2 == IF d2 < 0 THEN 1 ELSE 0
        d1 == a[1] - b[1] - c2
        c1 == IF d1 < 0 THEN 1 ELSE 0
    IN  [bits |-> << d1 + c1 * Limb, d2 + c2 * Limb, d3 + c3 * Limb, d4 + c4 * Limb >>,
         overflow |-> c1 = 1]

\* 0x5fe6a09e667f3bc8
MAGIC == << 24550, 41118, 26239, 15304 >>

\* q_rsqrt.  The subtraction is the `-` of u64: with overflow checks compiled in
\* (the dev profile) an overflow panics, without them (the release profile) it
\* wraps.  from_bits and the three refinement lines are f64 operations, which
\* yield a value for every operand; the result carries the bits of the first
\* approximation they start from.
q_rsqrt(f_in_as_bits, overflow_checks) ==
    LET m == sub_u64(MAGIC, shr1(f_in_as_bits))
    IN  IF m.overflow /\ overflow_checks
        THEN [status |-> "panic", bits |-> << 0, 0, 0, 0 >>]
        ELSE [status |-> "returned", bits |-> m.bits]

\* ----------------------------------------------------------------- state

VARIABLES
    pc,          \* "start", "built" (from_style returned), "tracking"
    style,       \* the CurveStyle handed to from_style
    curve,       \* the CurveType from_style returned
    base_func,   \* WeightedNextBundle.base_func
    time,        \* WeightedNextBundle.time of the last call
    last_pos,    \* WeightedNextBundle.last_pos: the y of the last call
    last_vel,    \* WeightedNextBundle.last_vel: the yd of the last call
    prev_pos,    \* last_pos as the last call received it
    prev_vel,    \* last_vel as the last call received it
    start,       \* the position and velocity the tracker began with
    out,         \* what the last call of calc_weighted_next returned, with its locals
    ticks,       \* the number of calls of calc_weighted_next
    steady,      \* every call so far had the same time step
    d_pc,        \* "ready", "done": the call of derivative
    d_fn,        \* derivative's f
    d_x,         \* derivative's x
    d_out,       \* what derivative returned
    q_pc,        \* "ready", "done": the call of q_rsqrt
    f_in,        \* q_rsqrt's f_in.to_bits()
    overflow_checks, \* whether the build checks integer overflow
    q_out        \* the outcome of q_rsqrt

tracker_vars ==
    << pc, style, curve, base_func, time, last_pos, last_vel, prev_pos, prev_vel,
       start, out, ticks, steady >>

d_vars == << d_pc, d_fn, d_x, d_out >>

q_vars == << q_pc, f_in, overflow_checks, q_out >>

vars == << tracker_vars, d_vars, q_vars >>

\* ---------------------------------------------------------------- bounds

MaxTicks == 3

FVals == {FNeg(One), Zero, One}

\* Damping ratios for which |z*z - 1| is the square of a rational.
ZVals == {Zero, One, Rat(5, 4)}

RVals == {Zero, One}

Styles ==
    {Linear, Bezier, SmoothDamped}
        \cup {Mechanical(f, z) : f \in FVals, z \in ZVals}
        \cup {Custom(f, z, r) : f \in FVals, z \in ZVals, r \in RVals}

\* Time steps: zero, of the order of DELTA, ordinary, negative.
TVals ==
    {Zero, MIN_POSITIVE, FNeg(MIN_POSITIVE), Half, FNeg(Half), Rat(1, 40), Rat(1, 3)}

Funcs == {"const1", "identity", "square", "step"}

TrackedFuncs == {"const1", "identity", "step"}

ZeroVec == Vec3(Zero, Zero, Zero)

Starts ==
    {[pos |-> ZeroVec, vel |-> ZeroVec],
     [pos |-> Vec3(Zero, One, Two), vel |-> Vec3(One, Zero, FNeg(One))]}

XVals ==
    {Zero, MIN_POSITIVE, FNeg(MIN_POSITIVE), Fin(2, 1, 1), Fin(-2, 1, 1),
     Half, FNeg(Half), One, FNeg(One), Two, FNeg(Two), Rat(3, 1), Rat(10, 1)}

\* Bit patterns of f64: 0.0, subnormals, MIN_POSITIVE, 0.25, 1.0, 4.0, MAX, +Inf,
\* NaN, -0.0, small negatives, the two patterns around 2 * MAGIC + 1, -1.0, -Inf,
\* negative NaN.
HighLimbs == {0, 16, 16336, 16368, 16400, 32751, 32752, 32760,
              32768, 32784, 49101, 49136, 65520, 65528, 65535}

LowLimbs == { << 0, 0, 0 >>, << 0, 0, 1 >>, << 65535, 65535, 65535 >>,
              << 16700, 52478, 30609 >>, << 16700, 52478, 30610 >> }

BitPatterns == { << h, l[1], l[2], l[3] >> : h \in HighLimbs, l \in LowLimbs }

\* ------------------------------------------------------ idle components

NoStyle == [tag |-> "none", f |-> Unset, z |-> Unset, r |-> Unset]

NoCurve == [f |-> Unset, z |-> Unset, r |-> Unset, _w |-> Unset, _z |-> Unset, _d |-> Unset]

NoVec == Vec3(Unset, Unset, Unset)

NoStable ==
    [branch |-> "none", k1_stable |-> Unset, k2_stable |-> Unset, t1 |-> Unset,
     temp |-> Unset, alpha |-> Unset, beta |-> Unset, den |-> Unset, t2 |-> Unset]

NoLocals ==
    [k1 |-> Unset, k2 |-> Unset, k3 |-> Unset, x |-> Unset, xd |-> Unset, s |-> NoStable]

TrackerIdle ==
    /\ pc = "start"
    /\ style = NoStyle
    /\ curve = NoCurve
    /\ base_func = "none"
    /\ time = Unset
    /\ last_pos = NoVec
    /\ last_vel = NoVec
    /\ prev_pos = NoVec
    /\ prev_vel = NoVec
    /\ start = [pos |-> NoVec, vel |-> NoVec]
    /\ out = [ret |-> [y |-> NoVec, yd |-> NoVec], locals |-> NoLocals]
    /\ ticks = 0
    /\ steady = TRUE

DerivativeIdle ==
    /\ d_pc = "idle"
    /\ d_fn = "none"
    /\ d_x = Unset
    /\ d_out = Unset

RsqrtIdle ==
    /\ q_pc = "idle"
    /\ f_in = << 0, 0, 0, 0 >>
    /\ overflow_checks = FALSE
    /\ q_out = [status |-> "none", bits |-> << 0, 0, 0, 0 >>]

\* --------------------------------------------------------------- tracker

Init == TrackerIdle /\ DerivativeIdle /\ RsqrtIdle

\* let curve = CurveType::from_style(c)
Construct(c) ==
    /\ pc = "start"
    /\ pc' = "built"
    /\ style' = c
    /\ curve' = from_style(c)
    /\ UNCHANGED << base_func, time, last_pos, last_vel, prev_pos, prev_vel, start,
                    out, ticks, steady >>
    /\ UNCHANGED << d_vars, q_vars >>

\* The owner of the tracker chooses the target function and the initial state.
Track(fn, s0) ==
    /\ pc = "built"
    /\ pc' = "tracking"
    /\ base_func' = fn
    /\ last_pos' = s0.pos
    /\ last_vel' = s0.vel
    /\ start' = s0
    /\ UNCHANGED << style, curve, time, prev_pos, prev_vel, out, ticks, steady >>
    /\ UNCHANGED << d_vars, q_vars >>

Bundle(t) ==
    [base_func |-> base_func, time |-> t, curve |-> curve,
     last_pos |-> last_pos, last_vel |-> last_vel, last_acc |-> ZeroVec]

\* One tick: (last_pos, last_vel) = calc_weighted_next(bundle with time t).  The
\* time steps are those at which the cosine of t * _d is rational.
Tick(t) ==
    /\ pc = "tracking"
    /\ ticks < MaxTicks
    /\ CosExact(FMul(t, curve._d))
    /\ out' = calc_weighted_next(Bundle(t))
    /\ last_pos' = out'.ret.y
    /\ last_vel' = out'.ret.yd
    /\ prev_pos' = last_pos
    /\ prev_vel' = last_vel
    /\ time' = t
    /\ ticks' = ticks + 1
    /\ steady' = (steady /\ (ticks = 0 \/ time = t))
    /\ UNCHANGED << pc, style, curve, base_func, start >>
    /\ UNCHANGED << d_vars, q_vars >>

Next ==
    \/ \E c \in Styles : Construct(c)
    \/ \E fn \in TrackedFuncs, s0 \in Starts : Track(fn, s0)
    \/ \E t \in TVals : Tick(t)

Spec == Init /\ [][Next]_vars

\* ------------------------------------------------------------ derivative

InitDerivative ==
    /\ TrackerIdle
    /\ RsqrtIdle
    /\ d_pc = "ready"
    /\ d_fn \in Funcs
    /\ d_x \in XVals
    /\ d_out = Unset

CallDerivative ==
    /\ d_pc = "ready"
    /\ d_pc' = "done"
    /\ d_out' = derivative(d_fn, d_x)
    /\ UNCHANGED << d_fn, d_x, tracker_vars, q_vars >>

NextDerivative == CallDerivative

SpecDerivative == InitDerivative /\ [][NextDerivative]_vars

\* --------------------------------------------------------------- q_rsqrt

InitRsqrt ==
    /\ TrackerIdle
    /\ DerivativeIdle
    /\ q_pc = "ready"
    /\ f_in \in BitPatterns
    /\ overflow_checks \in BOOLEAN
    /\ q_out = [status |-> "none", bits |-> << 0, 0, 0, 0 >>]

CallQRsqrt ==
    /\ q_pc = "ready"
    /\ q_pc' = "done"
    /\ q_out' = q_rsqrt(f_in, overflow_checks)
    /\ UNCHANGED << f_in, overflow_checks, tracker_vars, d_vars >>

NextRsqrt == CallQRsqrt

SpecRsqrt == InitRsqrt /\ [][NextRsqrt]_vars

\* ---------------------------------------------------------------- claims

Constructed == pc \in {"built", "tracking"}

Called == ticks > 0

\* C1: from_style returns coefficients only for a style whose f is positive; for
\* Bezier and for f <= 0 it ends in a configuration error instead.
C1_CoefficientsOnlyForPositiveF ==
    Constructed => FLt(Zero, get_fzr(style).f)

\* C2: the CurveType from_style returns holds, for the raw (f, z, r) of the
\* table, k1' = z/(PI*f), k2' = 1/omega^2, k3' = (r*z)/omega, omega = 2*PI*f,
\* zeta = 0 and dampedFreq = omega * sqrt(|z*z - 1|).
C2_DerivedFromRawTriple ==
    Constructed =>
        LET raw == CASE style.tag = "Linear" -> << Rat(10, 1), Zero, One >>
                     [] style.tag = "Bezier" -> << Zero, Zero, Zero >>
                     [] style.tag = "SmoothDamped" -> << One, One, Zero >>
                     [] style.tag = "Mechanical" -> << style.f, style.z, Two >>
                     [] style.tag = "Custom" -> << style.f, style.z, style.r >>
            f == raw[1]
            z == raw[2]
            r == raw[3]
            omega == FMul(FMul(Two, PI), f)
        IN  /\ curve.f = FDiv(z, FMul(PI, f))
            /\ curve.r = FDiv(One, FMul(omega, omega))
            /\ curve.z = FDiv(FMul(r, z), omega)
            /\ curve._w = omega
            /\ curve._z = Zero
            /\ curve._d = FMul(omega, FSqrt(FAbs(FSub(FMul(z, z), One))))

C2_Witness ==
    /\ pc = "built"
    /\ style.tag = "Mechanical"
    /\ IsFin(curve.f) /\ ~IsZero(curve.f)
    /\ IsFin(curve.z) /\ ~IsZero(curve.z)
    /\ IsFin(curve.r)

\* C3: calc_weighted_next multiplies xd by k3' = (r*z)/omega, takes k1' =
\* z/(PI*f) for k1 and k2' = 1/omega^2 for the k2 of the clamp branch.
C3_ReadsTheSlotsWritten ==
    Called =>
        LET f == get_fzr(style).f
            z == get_fzr(style).z
            r == get_fzr(style).r
            omega == FMul(FMul(Two, PI), f)
        IN  /\ out.locals.k1 = FDiv(z, FMul(PI, f))
            /\ out.locals.k2 = FDiv(One, FMul(omega, omega))
            /\ out.locals.k3 = FDiv(FMul(r, z), omega)

\* A denominator of the last update was zero: that of t2 (pole matching) or
\* k2_stable.
ZeroDenominator ==
    \/ out.locals.s.branch = "pole" /\ IsZero(out.locals.s.den)
    \/ IsZero(out.locals.s.k2_stable)

\* C4: an update divides by zero only with dt = 0 and k2' = 0: for every style
\* with f > 0 and every dt > 0, SmoothDamped among them, no denominator is zero.
C4_NoZeroDenominatorForPositiveStep ==
    (Called /\ FLt(Zero, get_fzr(style).f) /\ FLt(Zero, time)) => ~ZeroDenominator

\* C5: SmoothDamped from rest, target constant 1, fixed dt > 0: after every
\* tick the position is at most 1 + epsilon and not below the position before.
C5_NoOvershootAndMonotone ==
    (/\ Called
     /\ style = SmoothDamped
     /\ start = [pos |-> ZeroVec, vel |-> ZeroVec]
     /\ base_func = "const1"
     /\ steady
     /\ FLt(Zero, time))
    => \A c \in {"x", "y", "z"} :
          /\ FLe(last_pos[c], Rat(101, 100))
          /\ FLe(prev_pos[c], last_pos[c])

\* C6: derivative of x^2 at 2 is 4 within tolerance: the sample points differ,
\* the divisor is non-zero and the quotient is the central-difference slope.
C6_DerivativeOfSquareAtTwo ==
    (d_pc = "done" /\ d_fn = "square" /\ d_x = Two) =>
        /\ derivative_x1(d_x) # derivative_x2(d_x)
        /\ ~IsZero(FSub(derivative_x2(d_x), derivative_x1(d_x)))
        /\ FLe(FAbs(FSub(d_out, Rat(4, 1))), Rat(1, 1000))

\* C7: q_rsqrt returns a value for every 64-bit pattern: the subtraction from
\* the magic constant never aborts.
C7_AlwaysReturns ==
    q_pc = "done" => q_out.status = "returned"

\* C8: zeta is 0, so the clamp branch is taken exactly when omega * dt is
\* negative, and never for f >= 0 and dt >= 0.
C8_ClampOnlyForNegativeProduct ==
    Called =>
        LET f == get_fzr(style).f
            omega == FMul(FMul(Two, PI), f)
        IN  /\ curve._z = Zero
            /\ (out.locals.s.branch = "clamp") = FLt(FMul(omega, time), Zero)
            /\ (FLe(Zero, f) /\ FLe(Zero, time)) => out.locals.s.branch = "pole"

C8_Witness ==
    /\ Called
    /\ FLt(Zero, get_fzr(style).f)
    /\ FLt(Zero, time)
    /\ out.locals.s.branch = "pole"

\* C9: per component, position' = position + dt * velocity with the velocity
\* from before the tick, then velocity' from position', the velocity from
\* before the tick and the shared scalars; no other component enters.
C9_ComponentwiseUpdate ==
    Called =>
        \A c \in {"x", "y", "z"} :
            LET l == out.locals
                p == FAdd(prev_pos[c], FMul(time, prev_vel[c]))
                force == FSub(FSub(FAdd(l.x, FMul(l.k3, l.xd)), p),
                              FMul(l.s.k1_stable, prev_vel[c]))
            IN  /\ last_pos[c] = p
                /\ last_vel[c] = FAdd(prev_vel[c], FDiv(FMul(time, force), l.s.k2_stable))

C9_Witness ==
    /\ Called
    /\ IsFin(last_vel.x) /\ IsFin(last_vel.y) /\ IsFin(last_vel.z)
    /\ last_pos.x # prev_pos.x
    /\ last_pos.x # last_pos.z
    /\ last_vel.x # last_vel.y

====
